---- MODULE Spec2Model ----
(***************************************************************************)
(* A model of the IDDCareBot retrieval-and-answer backend                  *)
(* (src/idd_care_bot/llm_server.py, server.py, safety.py).                 *)
(*                                                                         *)
(* Strings.  A Python str is a sequence of atoms.  In every string the     *)
(* code searches (queries, crisis phrases, smalltalk patterns) an atom is  *)
(* one character; in strings the code only concatenates and returns        *)
(* (canned answers, prompts, completions) an atom may be a whole literal.  *)
(* Characters outside ASCII are written by name ("RSQUO" is U+2019).       *)
(* An optional value is <<>> (None) or <<v>>.                              *)
(***************************************************************************)
EXTENDS Integers, Sequences, FiniteSets, TLC

VARIABLES
  arg,      \* unit harness: the argument(s) of the function under test
  upc,      \* unit harness: "ready", "awaiting", "returned" or "raised"
  ret,      \* unit harness: <<>> until the function returned, then <<value>>
  ext,      \* unit harness: the provider requests the function made
  cfg,      \* the process environment: app, provider variables, TOP_K
  META,     \* the loaded metadata sequence (meta.json)
  index,    \* the loaded vector index: vector i is the embedding of META[i]
            \* (META and index are <<>> until loaded: a persisted corpus has a chunk)
  pc,       \* per request: "idle", "awaiting", "done", "failed"
  query,    \* per request: req.query
  flag,     \* per request: what check_red_flags returned (flagged, crisis)
  trace,    \* per request: the collaborators called, in call order
  hits,     \* per request: the value retrieve returned (<<>> if not called)
  answered, \* per request: <<>> or <<how the provider's call ended>>
  llm,      \* per request: <<>> or <<the string call_llm returned>>
  resp,     \* per request: <<>> or <<the ChatResponse returned>>
  embedder, \* the loaded embedding model: <<>> or <<its name>>
  loads,    \* per singleton (embedder, index, meta): how often it was constructed
  exemplars,  \* the module-level list prompts.FEWSHOT, as it is now
  messages,   \* UI session: ChatState.messages
  user_input, \* UI session: ChatState.user_input
  loading,    \* UI session: ChatState.loading
  sending,    \* UI session: <<>> or <<the running send_message: its query and position>>
  posts,      \* UI session: the chat requests posted so far, each "in flight" or ended
  event,      \* UI session: the handler step taken last
  all_chunks, \* ingestion job: the chunks read so far, each with text and meta
  embs        \* ingestion job: the embeddings of the chunk texts, <<>> before

vars == <<arg, upc, ret, ext, cfg, META, index, pc, query, flag, trace, hits, answered, llm, resp,
          embedder, loads, exemplars, messages, user_input, loading, sending, posts, event,
          all_chunks, embs>>

(***************************************************************************)
(* Bounds of the model.                                                    *)
(***************************************************************************)
MaxParts == 2     \* a harness text is at most this many fragments
MaxCorpus == 3    \* chunks in a persisted corpus
MaxTopK == 3      \* the configured TOP_K ranges over 1..MaxTopK
NumReqs == 2      \* chat requests in one run of the serving process
MaxCalls == 2     \* calls of build_messages in one run of the prompt harness
MaxRows == 2      \* CSV rows in one run of the ingestion job
MaxSends == 2     \* chat requests one UI session posts
MaxText == 5      \* characters of a text given to chunk_text under its harness
MaxChunkLen == 3  \* max_len ranges over 1..MaxChunkLen, overlap over 0..MaxChunkLen

(***************************************************************************)
(* Python str operations.                                                  *)
(***************************************************************************)
None == <<>>

Some(v) == <<v>>

UpperChars ==
  <<"A","B","C","D","E","F","G","H","I","J","K","L","M",
    "N","O","P","Q","R","S","T","U","V","W","X","Y","Z">>

LowerChars ==
  <<"a","b","c","d","e","f","g","h","i","j","k","l","m",
    "n","o","p","q","r","s","t","u","v","w","x","y","z">>

Whitespace == {" ", "\t", "\n", "\r"}

LowerChar(c) ==
  IF \E i \in 1..Len(UpperChars) : UpperChars[i] = c
  THEN LowerChars[CHOOSE i \in 1..Len(UpperChars) : UpperChars[i] = c]
  ELSE c

\* str.lower()
Lower(s) == [i \in 1..Len(s) |-> LowerChar(s[i])]

RECURSIVE LStrip(_)
LStrip(s) ==
  IF s # <<>> /\ Head(s) \in Whitespace THEN LStrip(Tail(s)) ELSE s

RECURSIVE RStrip(_)
RStrip(s) ==
  IF s # <<>> /\ s[Len(s)] \in Whitespace
  THEN RStrip(SubSeq(s, 1, Len(s) - 1))
  ELSE s

\* str.strip()
Strip(s) == RStrip(LStrip(s))

\* s.startswith(p)
StartsWith(s, p) == Len(p) <= Len(s) /\ SubSeq(s, 1, Len(p)) = p

\* p in s
In(p, s) ==
  \E i \in 0..(Len(s) - Len(p)) : SubSeq(s, i + 1, i + Len(p)) = p

RECURSIVE Flatten(_)
Flatten(parts) ==
  IF parts = <<>> THEN <<>> ELSE Head(parts) \o Flatten(Tail(parts))

SeqsUpTo(S, n) == UNION {[1..k -> S] : k \in 0..n}

\* c repeated n times
Rep(c, n) == [i \in 1..n |-> c]

(***************************************************************************)
(* utils.py                                                                *)
(***************************************************************************)
\* clean_text(text): re.sub(r"\s+", " ", text).strip().  Of every run of
\* whitespace the first character stays, as a space; the others are dropped.
clean_text(text) ==
  LET n == Len(text)
      dropped == {i \in 2..n : text[i] \in Whitespace /\ text[i - 1] \in Whitespace}
      d == Cardinality(dropped)
      before(p) == Cardinality({j \in dropped : j < p})
      at(k) == CHOOSE p \in k..(k + d) : p \notin dropped /\ p - before(p) = k
      collapsed == [k \in 1..(n - d) |->
                      IF text[at(k)] \in Whitespace THEN " " ELSE text[at(k)]]
  IN Strip(collapsed)

\* re.split(r"(?<=[.!?])\s+", text): the pieces between the whitespace runs
\* that follow a sentence terminator (text is cleaned: a run is one space)
RECURSIVE Pieces(_, _, _)
Pieces(text, from, cuts) ==
  IF cuts = {} THEN <<SubSeq(text, from, Len(text))>>
  ELSE LET c == CHOOSE x \in cuts : \A y \in cuts : x <= y
       IN <<SubSeq(text, from, c - 1)>> \o Pieces(text, c + 1, cuts \ {c})

SplitSentences(text) ==
  Pieces(text, 1, {i \in 2..Len(text) : text[i] = " " /\ text[i - 1] \in {".", "!", "?"}})

\* s[-n:]: the last n characters, and all of s when n = 0 or n > len(s)
LastChars(s, n) ==
  IF n = 0 \/ n >= Len(s) THEN s ELSE SubSeq(s, Len(s) - n + 1, Len(s))

\* the for loop of chunk_text from sentence i on, and the final append
RECURSIVE ChunkLoop(_, _, _, _, _, _)
ChunkLoop(sentences, i, current, chunks, max_len, overlap) ==
  IF i > Len(sentences)
  THEN IF Strip(current) # <<>> THEN Append(chunks, Strip(current)) ELSE chunks
  ELSE IF Len(current) + Len(sentences[i]) + 1 <= max_len
       THEN ChunkLoop(sentences, i + 1, current \o <<" ">> \o sentences[i],
                      chunks, max_len, overlap)
       ELSE ChunkLoop(sentences, i + 1,
                      LastChars(current, overlap) \o <<" ">> \o sentences[i],
                      Append(chunks, Strip(current)), max_len, overlap)

\* chunk_text(text, max_len, overlap)
chunk_text(text, max_len, overlap) ==
  LET cleaned == clean_text(text) IN
  IF Len(cleaned) <= max_len THEN <<cleaned>>
  ELSE ChunkLoop(SplitSentences(cleaned), 1, <<>>, <<>>, max_len, overlap)

(***************************************************************************)
(* safety.py                                                               *)
(***************************************************************************)
RED_FLAGS ==
  << <<"s","e","i","z","u","r","e">>,
     <<"b","l","u","e"," ","l","i","p","s">>,
     <<"u","n","c","o","n","s","c","i","o","u","s">>,
     <<"s","e","v","e","r","e"," ","c","h","e","s","t"," ","p","a","i","n">>,
     <<"d","i","f","f","i","c","u","l","t","y"," ","b","r","e","a","t","h","i","n","g">>,
     <<"t","r","o","u","b","l","e"," ","b","r","e","a","t","h","i","n","g">>,
     <<"n","o","t"," ","r","e","s","p","o","n","s","i","v","e">>,
     <<"s","t","o","p","p","e","d"," ","b","r","e","a","t","h","i","n","g">>,
     <<"c","h","o","k","i","n","g">>,
     <<"h","e","a","d"," ","i","n","j","u","r","y">>,
     <<"s","e","v","e","r","e"," ","b","l","e","e","d","i","n","g">>,
     <<"s","u","i","c","i","d","a","l">>,
     <<"i","n","g","e","s","t","e","d"," ","p","o","i","s","o","n">>,
     <<"a","l","l","e","r","g","i","c"," ","r","e","a","c","t","i","o","n">> >>

CRISIS_MSG ==
  <<"This may be an emergency. I'm not a medical professional, but based on what you shared, ",
    "please contact local emergency services immediately or your child's clinician.">>

NON_DIAGNOSTIC_PREFACE ==
  <<"I can provide general, caregiver-friendly information about Down syndrome and IDD. ",
    "I can't diagnose, prescribe, or replace professional care.">>

\* text or ""
OrEmpty(text) == IF text = None \/ text[1] = <<>> THEN <<>> ELSE text[1]

\* the for loop of check_red_flags from RED_FLAGS[i] on, over the lowered text t
RECURSIVE RedFlagLoop(_, _)
RedFlagLoop(t, i) ==
  IF i > Len(RED_FLAGS) THEN [flagged |-> FALSE, message |-> <<>>]
  ELSE IF In(RED_FLAGS[i], t) THEN [flagged |-> TRUE, message |-> CRISIS_MSG]
  ELSE RedFlagLoop(t, i + 1)

\* a mutant: the text is searched without being lower-cased
check_red_flags_cased(text) == RedFlagLoop(OrEmpty(text), 1)

\* check_red_flags(text), text an optional str
check_red_flags(text) == RedFlagLoop(Lower(OrEmpty(text)), 1)

(***************************************************************************)
(* llm_server.py: the Smalltalk Matcher                                    *)
(***************************************************************************)
smalltalk_patterns == [
  greetings |->
    { <<"h","i">>,
      <<"h","e","l","l","o">>,
      <<"h","e","y">>,
      <<"g","o","o","d"," ","m","o","r","n","i","n","g">>,
      <<"g","o","o","d"," ","e","v","e","n","i","n","g">> },
  gratitude |->
    { <<"t","h","a","n","k","s">>,
      <<"t","h","a","n","k"," ","y","o","u">>,
      <<"t","h","x">> },
  farewell |->
    { <<"b","y","e">>,
      <<"g","o","o","d","b","y","e">>,
      <<"s","e","e"," ","y","o","u">>,
      <<"t","a","k","e"," ","c","a","r","e">> },
  how_are_you |->
    { <<"h","o","w"," ","a","r","e"," ","y","o","u">>,
      <<"h","o","w","RSQUO","s"," ","i","t"," ","g","o","i","n","g">>,
      <<"h","o","w"," ","a","r","e"," ","u">> },
  capabilities |->
    { <<"w","h","a","t"," ","c","a","n"," ","y","o","u"," ","d","o">>,
      <<"h","o","w"," ","c","a","n"," ","y","o","u"," ","h","e","l","p">>,
      <<"w","h","o"," ","a","r","e"," ","y","o","u">>,
      <<"w","h","a","t"," ","a","r","e"," ","y","o","u">>,
      <<"w","h","a","t"," ","i","s"," ","y","o","u","r"," ","r","o","l","e">>,
      <<"h","e","l","p">>,
      <<"i"," ","n","e","e","d"," ","h","e","l","p">>,
      <<"s","u","p","p","o","r","t">>,
      <<"a","s","s","i","s","t"," ","m","e">> }
]

GREETING_ANSWER ==
  <<":wave: Hi there! I'm glad you reached out. How can I support you today?">>

GRATITUDE_ANSWER ==
  <<":purple_heart: You're very welcome. Caring for a child with IDD is a big job-you're doing great.">>

FAREWELL_ANSWER ==
  <<":wave: Take care! Remember, you can come back anytime with questions or just to talk.">>

HOW_ARE_YOU_ANSWER ==
  <<":blush: Thanks for asking! I'm here and ready to help with anything about caregiving or resources.">>

CAPABILITIES_ANSWER ==
  <<":robot: I'm **IDDCareBot**, here to support caregivers of children with Down Syndrome and other intellectual or ",
    "developmental disabilities (IDD). I can:\n",
    "- Share caregiver-friendly tips and strategies (not medical advice).\n",
    "- Explain information from research in plain language.\n",
    "- Suggest resources you can discuss with your child's providers.\n\n",
    "How can I help you today?">>

Canned(answer) == Some([answer |-> answer, citations |-> <<>>])

\* a mutant: the how-are-you rule is tried before the greeting rule
handle_smalltalk_reordered(input) ==
  LET text == Strip(Lower(input)) IN
  IF \E g \in smalltalk_patterns.how_are_you : In(g, text)
    THEN Canned(HOW_ARE_YOU_ANSWER)
  ELSE IF \E g \in smalltalk_patterns.greetings : StartsWith(text, g)
    THEN Canned(GREETING_ANSWER)
  ELSE IF \E g \in smalltalk_patterns.gratitude : In(g, text)
    THEN Canned(GRATITUDE_ANSWER)
  ELSE IF \E g \in smalltalk_patterns.farewell : StartsWith(text, g)
    THEN Canned(FAREWELL_ANSWER)
  ELSE IF \E g \in smalltalk_patterns.capabilities : text = g \/ In(g, text)
    THEN Canned(CAPABILITIES_ANSWER)
  ELSE None

\* a mutant: a pattern matches only the text equal to it
handle_smalltalk_exact(input) ==
  LET text == Strip(Lower(input)) IN
  IF text \in smalltalk_patterns.greetings THEN Canned(GREETING_ANSWER)
  ELSE IF text \in smalltalk_patterns.gratitude THEN Canned(GRATITUDE_ANSWER)
  ELSE IF text \in smalltalk_patterns.farewell THEN Canned(FAREWELL_ANSWER)
  ELSE IF text \in smalltalk_patterns.how_are_you THEN Canned(HOW_ARE_YOU_ANSWER)
  ELSE IF text \in smalltalk_patterns.capabilities THEN Canned(CAPABILITIES_ANSWER)
  ELSE None

\* handle_smalltalk(user_input): <<the canned response>>, or None
handle_smalltalk(input) ==
  LET text == Strip(Lower(input)) IN
  IF \E g \in smalltalk_patterns.greetings : StartsWith(text, g)
    THEN Canned(GREETING_ANSWER)
  ELSE IF \E g \in smalltalk_patterns.gratitude : In(g, text)
    THEN Canned(GRATITUDE_ANSWER)
  ELSE IF \E g \in smalltalk_patterns.farewell : StartsWith(text, g)
    THEN Canned(FAREWELL_ANSWER)
  ELSE IF \E g \in smalltalk_patterns.how_are_you : In(g, text)
    THEN Canned(HOW_ARE_YOU_ANSWER)
  ELSE IF \E g \in smalltalk_patterns.capabilities : text = g \/ In(g, text)
    THEN Canned(CAPABILITIES_ANSWER)
  ELSE None

(***************************************************************************)
(* prompts.py                                                              *)
(***************************************************************************)
SYSTEM_PROMPT ==
  <<"You are IDDCareBot, a supportive assistant for caregivers of children with Down Syndrome and other intellectual/developmental disabilities (IDD). You provide clear, non-judgmental education, tips, and resources in plain language. You do not give medical diagnoses. You encourage consulting qualified clinicians.\n\n",
    "When you answer, FIRST check the provided context passages. Prefer direct quotes or paraphrases grounded in the context. If context is insufficient, say so and suggest specific follow-ups (e.g., ask a provider, or request more details).\n\n",
    "Citations: After the answer, list sources as bullet points with Title - Authors (Year). Include DOI or PubMed ID links if you are certain they are correct. If no reliable DOI or PubMed link is available, provide the citation without a URL. Do NOT generate or guess URLs.">>

FEWSHOT == <<
  [role |-> "user",
   content |->
     <<"My child has trouble focusing during therapy. Any tips?">>],
  [role |-> "assistant",
   content |->
     <<"Here are some caregiver-friendly ideas you might consider (these are general tips, not medical advice):\n",
       "* Keep sessions short and consistent; build routine.\n",
       "* Use visual schedules and break tasks into steps.\n",
       "* Offer choices and positive reinforcement.\n",
       "* Minimize distractions (noise, clutter).\n\n",
       "If focus remains challenging, discuss options with your child's therapist or pediatrician.\n\n",
       "**Sources**:\n",
       "* Therapy engagement in IDD - Author et al. (2020)">>],
  [role |-> "user",
   content |->
     <<"Sometimes my child refuses to eat new foods. What can I do?">>],
  [role |-> "assistant",
   content |->
     <<"Feeding challenges are very common. Some general ideas you can try:\n",
       "* Introduce new foods slowly, alongside familiar favorites.\n",
       "* Make mealtimes relaxed, not stressful.\n",
       "* Offer small portions and let your child explore the food first (touch, smell).\n",
       "* Use positive reinforcement when your child tries something new.\n\n",
       "If your child is losing weight or seems limited to very few foods, please consult a pediatrician or feeding specialist.\n\n",
       "**Sources**:\n",
       "* Feeding problems in children with Down Syndrome - Field et al. (2003)\n",
       "* Pediatric feeding disorders - Silverman & Tarbell (2009)">>],
  [role |-> "user",
   content |->
     <<"My child gets very frustrated when routines change. How can I help?">>],
  [role |-> "assistant",
   content |->
     <<"Many children with IDD find comfort in routines. To ease transitions:\n",
       "* Use visual schedules or calendars to show upcoming changes.\n",
       "* Give plenty of warning before a transition.\n",
       "* Practice small changes gradually.\n",
       "* Offer comfort items (toys, music) during transitions.\n\n",
       "If meltdowns are frequent or severe, talk with your child's behavioral therapist for tailored strategies.\n\n",
       "**Sources**:\n",
       "* Transition supports for children with developmental disabilities - Dettmer et al. (2000)">>],
  [role |-> "user",
   content |->
     <<"My child has trouble sleeping through the night. Any suggestions?">>],
  [role |-> "assistant",
   content |->
     <<"Sleep difficulties are common in children with Down Syndrome. Helpful ideas include:\n",
       "* Keep a consistent bedtime routine.\n",
       "* Limit screens and caffeine before bed.\n",
       "* Make the bedroom calm, dark, and quiet.\n",
       "* Use a bedtime ritual (story, soft music, dim lights).\n\n",
       "If sleep problems continue, ask your pediatrician to check for medical issues (such as sleep apnea, which is more common in Down Syndrome).\n\n",
       "**Sources**:\n",
       "* Sleep disorders in Down Syndrome - Breslin et al. (2014)">>],
  [role |-> "user",
   content |->
     <<"How can I encourage my child to communicate more?">>],
  [role |-> "assistant",
   content |->
     <<"Encouraging communication can be done in everyday ways:\n",
       "* Model simple words and short phrases.\n",
       "* Use gestures, pictures, or sign language alongside speech.\n",
       "* Follow your child's lead-talk about what they are interested in.\n",
       "* Celebrate all communication attempts (sounds, gestures, words).\n\n",
       "For more structured support, consider consulting a speech-language pathologist.\n\n",
       "**Sources**:\n",
       "* Early communication interventions for children with Down Syndrome - Kumin (2003)">>]
>>

(***************************************************************************)
(* The process environment (os.getenv at import).  A variable is unset     *)
(* (None), set to the empty string, or set to a value.                     *)
(***************************************************************************)
DEFAULT_TOP_K == 5

EnvValues == {None, Some(""), Some("set")}

\* the truth value Python gives an optional str
Truthy(v) == v # None /\ v[1] # ""

Environments(apps, topks) ==
  [app : apps, TOP_K : topks,
   OPENAI_API_KEY : EnvValues,
   AZURE_OPENAI_API_KEY : EnvValues,
   AZURE_OPENAI_ENDPOINT : EnvValues,
   AZURE_OPENAI_DEPLOYMENT : EnvValues,
   OLLAMA_MODEL : EnvValues]

DefaultEnv ==
  [app |-> "llm_server", TOP_K |-> DEFAULT_TOP_K,
   OPENAI_API_KEY |-> None,
   AZURE_OPENAI_API_KEY |-> None,
   AZURE_OPENAI_ENDPOINT |-> None,
   AZURE_OPENAI_DEPLOYMENT |-> None,
   OLLAMA_MODEL |-> None]

(***************************************************************************)
(* The unit harness: one call of one function on an argument drawn from a  *)
(* bounded set.  The serving state stays as constructed.                   *)
(***************************************************************************)
Reqs == 1..NumReqs

NoRequests ==
  /\ pc = [r \in Reqs |-> "idle"]
  /\ query = [r \in Reqs |-> <<>>]
  /\ flag = [r \in Reqs |-> [flagged |-> FALSE, message |-> <<>>]]
  /\ trace = [r \in Reqs |-> <<>>]
  /\ hits = [r \in Reqs |-> <<>>]
  /\ answered = [r \in Reqs |-> <<>>]
  /\ llm = [r \in Reqs |-> <<>>]
  /\ resp = [r \in Reqs |-> <<>>]

\* no UI session is modelled: ChatState as constructed
NoSession ==
  /\ messages = <<>>
  /\ user_input = <<>>
  /\ loading = FALSE
  /\ sending = <<>>
  /\ posts = <<>>
  /\ event = "mount"

session == <<messages, user_input, loading, sending, posts, event>>

\* no ingestion job is modelled
NoJob == all_chunks = <<>> /\ embs = <<>>

job == <<all_chunks, embs>>

Singletons == {"embedder", "index", "meta"}

\* the lru_cache of every getter is empty
NotLoaded ==
  /\ embedder = <<>>
  /\ META = <<>>
  /\ index = <<>>
  /\ loads = [x \in Singletons |-> 0]

NoServing ==
  /\ cfg = DefaultEnv
  /\ NotLoaded
  /\ exemplars = FEWSHOT
  /\ NoRequests
  /\ NoSession
  /\ NoJob

serving == <<cfg, META, index, pc, query, flag, trace, hits, answered, llm, resp,
             embedder, loads, exemplars, session, job>>

HarnessReady == upc = "ready" /\ ret = <<>> /\ ext = <<>>

Texts(fragments) == {Flatten(p) : p \in SeqsUpTo(fragments, MaxParts)}

SafetyFragments ==
  { <<"H","e"," ","i","s"," ">>,
    <<"N","O","T"," ","R","E","S","P","O","N","S","I","V","E">>,
    <<" ","r","i","g","h","t"," ","n","o","w">>,
    <<"I"," ","f","e","e","l"," ","g","r","e","a","t"," ","t","o","d","a","y">>,
    <<"S","e","i","z">>,
    <<"u","r","e">>,
    <<"C","h","o","k","i","n","g">>,
    <<"n","o","t"," "," ","r","e","s","p","o","n","s","i","v","e">>,
    <<"!">>,
    <<"B","l","u","e">>,
    <<" ","l","i","p","s">> }

SafetyInit ==
  /\ arg \in {[text |-> None]} \cup {[text |-> Some(t)] : t \in Texts(SafetyFragments)}
  /\ HarnessReady
  /\ NoServing

CallCheckRedFlags ==
  /\ upc = "ready"
  /\ upc' = "returned"
  /\ ret' = <<check_red_flags(arg.text)>>
  /\ UNCHANGED <<arg, ext, serving>>

SpecSafety == SafetyInit /\ [][CallCheckRedFlags]_vars

SmalltalkFragments ==
  { <<"H","i">>,
    <<" ","t","h","e","r","e",","," ">>,
    <<"h","o","w"," ","a","r","e"," ","y","o","u">>,
    <<"?">>,
    <<"T","h","a","n","k","s">>,
    <<"B","y","e">>,
    <<" "," ">>,
    <<"h","e","l","p">>,
    <<"x">>,
    <<"G","o","o","d"," ","M","o","r","n","i","n","g">>,
    <<"S","e","e"," ","Y","o","u">>,
    <<"H","o","w"," ","a","r","e"," ","U">> }

SmalltalkInit ==
  /\ arg \in {[user_input |-> t] : t \in Texts(SmalltalkFragments)}
  /\ HarnessReady
  /\ NoServing

CallHandleSmalltalk ==
  /\ upc = "ready"
  /\ upc' = "returned"
  /\ ret' = <<handle_smalltalk(arg.user_input)>>
  /\ UNCHANGED <<arg, ext, serving>>

SpecSmalltalk == SmalltalkInit /\ [][CallHandleSmalltalk]_vars

(***************************************************************************)
(* C2: check_red_flags(text) flags exactly the texts whose lower-cased     *)
(* form contains an entry of RED_FLAGS as a substring; the message is the  *)
(* non-empty crisis message when flagged and the empty string otherwise;   *)
(* None and the empty text are not flagged.                                *)
(***************************************************************************)
HasCrisisPhrase(s) == \E i \in 1..Len(RED_FLAGS) : In(RED_FLAGS[i], Lower(s))

C2_RedFlagsExact ==
  ret # <<>> =>
    LET expected == arg.text # None /\ HasCrisisPhrase(arg.text[1]) IN
    /\ ret[1].flagged = expected
    /\ ret[1].message = (IF expected THEN CRISIS_MSG ELSE <<>>)
    /\ CRISIS_MSG # <<>>
    /\ (arg.text = None \/ arg.text = Some(<<>>)) => ~ret[1].flagged

\* a flagged text in which the phrase is upper-cased and has text around it
C2_Witness ==
  /\ ret # <<>>
  /\ ret[1].flagged
  /\ arg.text # None
  /\ \E i \in 1..Len(RED_FLAGS) :
       /\ ~In(RED_FLAGS[i], arg.text[1])
       /\ In(RED_FLAGS[i], Lower(arg.text[1]))
       /\ Len(arg.text[1]) > Len(RED_FLAGS[i])

(***************************************************************************)
(* C4: handle_smalltalk returns the canned response of the first category  *)
(* in the order greeting, gratitude, farewell, how-are-you, capabilities   *)
(* whose rule matches the lower-cased, trimmed text (greeting and farewell *)
(* by prefix, the others by occurrence anywhere), and None when no rule    *)
(* matches; a greeting that also asks "how are you" is a greeting.         *)
(***************************************************************************)
CategoryOrder ==
  <<"greetings", "gratitude", "farewell", "how_are_you", "capabilities">>

CategoryAnswer == [
  greetings |-> GREETING_ANSWER,
  gratitude |-> GRATITUDE_ANSWER,
  farewell |-> FAREWELL_ANSWER,
  how_are_you |-> HOW_ARE_YOU_ANSWER,
  capabilities |-> CAPABILITIES_ANSWER
]

RuleMatches(cat, text) ==
  IF cat \in {"greetings", "farewell"}
  THEN \E g \in smalltalk_patterns[cat] : StartsWith(text, g)
  ELSE \E g \in smalltalk_patterns[cat] : In(g, text)

Matching(text) == {i \in 1..Len(CategoryOrder) : RuleMatches(CategoryOrder[i], text)}

FirstMatch(text) == CHOOSE i \in Matching(text) : \A j \in Matching(text) : i <= j

C4_FirstCategoryWins ==
  ret # <<>> =>
    LET text == Strip(Lower(arg.user_input)) IN
    IF Matching(text) = {}
    THEN ret[1] = None
    ELSE ret[1] = Canned(CategoryAnswer[CategoryOrder[FirstMatch(text)]])

\* a text that starts with a greeting and also contains a how-are-you pattern
C4_Witness ==
  /\ ret # <<>>
  /\ LET text == Strip(Lower(arg.user_input)) IN
     /\ RuleMatches("greetings", text)
     /\ RuleMatches("how_are_you", text)
     /\ text # arg.user_input
  /\ ret[1] = Canned(GREETING_ANSWER)

(***************************************************************************)
(* The persisted store and the embedder.                                   *)
(*                                                                         *)
(* A vector is a pair of integers; a unit vector is scaled by UNIT, so     *)
(* that <<3, 4>> stands for (0.6, 0.8).  ingest.py embeds every chunk with *)
(* normalize_embeddings=True and adds it to a faiss.IndexFlatIP, and       *)
(* writes the chunk's metadata at the same position of meta.json.          *)
(***************************************************************************)
UNIT == 5

Dot(u, v) == u[1] * v[1] + u[2] * v[2]

\* the chunks a corpus is drawn from: a metadata record and its embedding
ChunkPool == {
  [rec |-> [title |-> "Sleep disorders in Down Syndrome", authors |-> "Breslin et al.",
            abstract |-> "Sleep problems are common in Down syndrome.",
            source_file |-> "sleep.csv", chunk_id |-> 0],
   vec |-> <<3, 4>>],
  [rec |-> [title |-> "Sleep disorders in Down Syndrome", authors |-> "Breslin et al.",
            abstract |-> "syndrome. Screening for sleep apnea is advised.",
            source_file |-> "sleep.csv", chunk_id |-> 1],
   vec |-> <<4, 3>>],
  [rec |-> [title |-> "Feeding problems in children with Down Syndrome",
            authors |-> "Field et al.", abstract |-> "Feeding challenges are frequent.",
            source_file |-> "feeding.csv", chunk_id |-> 0, year |-> "2003",
            url |-> "https://doi.org/10.1000/feeding"],
   vec |-> <<3, 4>>],
  [rec |-> [title |-> "Transition supports", authors |-> "nan", abstract |-> "",
            source_file |-> "transitions.csv", chunk_id |-> 0],
   vec |-> <<-5, 0>>]
}

\* the corpora ingestion can persist with at most n chunks (never none:
\* ingest.py fails on embs.shape[1] when there is no chunk)
Corpora(n) == UNION {[1..k -> ChunkPool] : k \in 1..n}

MetaOf(corpus) == [i \in 1..Len(corpus) |-> corpus[i].rec]

IndexOf(corpus) == [i \in 1..Len(corpus) |-> corpus[i].vec]

\* what get_embedder().encode([text])[0] may be: the model's output for a
\* text is not decided by the repository, and embed() does not ask for
\* normalization
EmbedOutputs == {<<4, 3>>, <<6, 8>>}

\* embed(text): the outputs the embedder may give for text
embed(text) == EmbedOutputs

(***************************************************************************)
(* The process-wide singletons.  llm_server.py builds each one in a getter *)
(* under functools.lru_cache(maxsize=1); server.py builds them at import.  *)
(***************************************************************************)
EMBEDDING_MODEL(app) ==
  IF app = "server" THEN "sentence-transformers/multi-qa-mpnet-base-dot-v1"
  ELSE "pritamdeka/BioBERT-mnli-snli-scinli-scitail-mednli-stsb"

\* a mutant: nothing is kept (the getter without its cache)
lru_cache_off(cached, built) == [value |-> built, cache |-> <<>>, ran |-> 1]

\* a mutant: the entry is evicted when it is hit
lru_cache_evicting(cached, built) ==
  IF cached = <<>> THEN [value |-> built, cache |-> built, ran |-> 1]
  ELSE [value |-> cached, cache |-> <<>>, ran |-> 0]

\* one call of a getter without arguments under lru_cache, whose body would
\* build `built`: the value returned, the cache afterwards (<<>> is the empty
\* cache), and how often the body ran
lru_cache(cached, built) ==
  IF cached = <<>> THEN [value |-> built, cache |-> built, ran |-> 1]
  ELSE [value |-> cached, cache |-> cached, ran |-> 0]

\* n >= 1 calls of the getter, one after the other
RECURSIVE Getter(_, _, _)
Getter(cached, built, n) ==
  IF n = 1 THEN lru_cache(cached, built)
  ELSE LET first == lru_cache(cached, built)
           rest == Getter(first.cache, built, n - 1)
       IN [rest EXCEPT !.ran = @ + first.ran]

\* n uses of a singleton by a request: through its getter in llm_server.py,
\* as the module global in server.py
Singleton(app, cached, built, n) ==
  IF app = "server" THEN [value |-> cached, cache |-> cached, ran |-> 0]
  ELSE Getter(cached, built, n)

(***************************************************************************)
(* faiss.IndexFlatIP.search(q, k): the k best rows by inner product, best  *)
(* first; the order of rows of equal score is the library's choice.  The   *)
(* result slots it cannot fill hold the id -1 and the lowest float.        *)
(***************************************************************************)
NO_ID == -1

FLT_LOWEST == -2147483647

Min(a, b) == IF a <= b THEN a ELSE b

Rankings(ix, q, k) ==
  LET n == Len(ix)
      m == Min(k, n)
      score(id) == Dot(ix[id + 1], q)
  IN {I \in [1..m -> 0..(n - 1)] :
        /\ \A i, j \in 1..m : i # j => I[i] # I[j]
        /\ \A i \in 1..(m - 1) : score(I[i]) >= score(I[i + 1])
        /\ \A id \in 0..(n - 1) :
             (\A i \in 1..m : I[i] # id) => \A i \in 1..m : score(I[i]) >= score(id)}

IndexSearch(ix, q, k) ==
  {[I |-> [i \in 1..k |-> IF i <= Len(best) THEN best[i] ELSE NO_ID],
    D |-> [i \in 1..k |-> IF i <= Len(best) THEN Dot(ix[best[i] + 1], q) ELSE FLT_LOWEST]]
   : best \in Rankings(ix, q, k)}

(***************************************************************************)
(* llm_server.py: retrieve                                                 *)
(***************************************************************************)
\* list[idx] for -len(list) <= idx < len(list): a negative idx counts from the end
PyIndex(list, idx) == IF idx >= 0 THEN list[idx + 1] ELSE list[Len(list) + idx + 1]

\* dict.get(key, default)
Get(dict, key, default) == IF key \in DOMAIN dict THEN dict[key] ELSE default

\* a mutant: the record is looked up one row too far
RetrievalHit_shifted(meta, idx, score) ==
  LET rec == PyIndex(meta, IF idx + 1 < Len(meta) THEN idx + 1 ELSE 0) IN
  [score |-> score, text |-> Get(rec, "abstract", ""), meta |-> rec]

\* the body of the for loop of retrieve
RetrievalHit(meta, idx, score) ==
  LET rec == PyIndex(meta, idx) IN
  [score |-> score, text |-> Get(rec, "abstract", ""), meta |-> rec]

\* the runs of retrieve(query, top_k) over the loaded index and metadata:
\* what embed and the index search returned, and the hits built from them
retrieve(ix, meta, text, top_k) ==
  {[q_emb |-> q, D |-> found.D, I |-> found.I,
    out |-> [i \in 1..Len(found.I) |-> RetrievalHit(meta, found.I[i], found.D[i])]]
   : <<q, found>> \in UNION {{<<e, f>> : f \in IndexSearch(ix, e, top_k)} : e \in embed(text)}}

(***************************************************************************)
(* retrieve under the unit harness.                                        *)
(***************************************************************************)
RetrieveQueries ==
  { <<>>,
    <<"s","l","e","e","p"," ","t","i","p","s","?">> }

RetrieveInit ==
  /\ arg \in {[query |-> q, top_k |-> k] : q \in RetrieveQueries, k \in 1..MaxTopK}
  /\ HarnessReady
  /\ cfg = DefaultEnv
  /\ \E corpus \in Corpora(MaxCorpus) : META = MetaOf(corpus) /\ index = IndexOf(corpus)
  /\ embedder = <<EMBEDDING_MODEL("llm_server")>>
  /\ loads = [x \in Singletons |-> 1]
  /\ exemplars = FEWSHOT
  /\ NoRequests
  /\ NoSession
  /\ NoJob

CallRetrieve ==
  /\ upc = "ready"
  /\ upc' = "returned"
  /\ \E run \in retrieve(index, META, arg.query, arg.top_k) : ret' = <<run>>
  /\ UNCHANGED <<arg, ext, serving>>

SpecRetrieve == RetrieveInit /\ [][CallRetrieve]_vars

(***************************************************************************)
(* C9: retrieve returns its hits in the index's ranking order: hit i       *)
(* carries score i of the search and, for a row id, the metadata record of *)
(* that row; the hit scores are non-increasing.                            *)
(***************************************************************************)
C9_RankingOrderKept ==
  ret # <<>> =>
    LET run == ret[1] IN
    /\ Len(run.out) = Len(run.I)
    /\ \A i \in 1..Len(run.out) :
         /\ run.out[i].score = run.D[i]
         /\ run.I[i] \in 0..(Len(META) - 1) =>
              /\ run.out[i].meta = META[run.I[i] + 1]
              /\ run.D[i] = Dot(index[run.I[i] + 1], run.q_emb)
    /\ \A i \in 1..(Len(run.out) - 1) : run.out[i].score >= run.out[i + 1].score

\* several hits of different rows and different scores were returned
C9_Witness ==
  /\ ret # <<>>
  /\ Len(ret[1].out) >= 2
  /\ ret[1].out[1].score > ret[1].out[2].score
  /\ ret[1].I[1] > ret[1].I[2]
  /\ ret[1].I[2] >= 0
  /\ ret[1].out[1].meta # ret[1].out[2].meta

(***************************************************************************)
(* C10: with top_k greater than the number of chunks, retrieve returns     *)
(* exactly one hit per chunk of the corpus.                                *)
(***************************************************************************)
C10_TopKBeyondCorpus ==
  (ret # <<>> /\ arg.top_k > Len(META)) =>
    /\ Len(ret[1].out) = Len(META)
    /\ \A id \in 0..(Len(META) - 1) :
         Cardinality({i \in 1..Len(ret[1].out) : ret[1].I[i] = id}) = 1

(***************************************************************************)
(* llm_server.py: format_context and build_messages                        *)
(***************************************************************************)
RECURSIVE JoinBlocks(_)
JoinBlocks(blocks) ==
  IF blocks = <<>> THEN <<>>
  ELSE IF Len(blocks) = 1 THEN blocks[1]
  ELSE blocks[1] \o <<"\n\n">> \o JoinBlocks(Tail(blocks))

\* format_context(snippets)
format_context(snippets) ==
  JoinBlocks([i \in 1..Len(snippets) |->
    LET m == snippets[i].meta IN
    <<"[", "Title: ", Get(m, "title", "N/A"), " | Authors: ", Get(m, "authors", "N/A"),
      " | Year: ", Get(m, "year", ""), "]", "\n", snippets[i].text>>])

\* the final user message of build_messages
UserMessage(q, context) ==
  [role |-> "user",
   content |-> <<"Caregiver question: ">> \o q \o <<"\n\n">> \o
               <<"Context (use to ground your answer):\n">> \o context \o <<"\n\n">> \o
               <<"Remember: ">> \o NON_DIAGNOSTIC_PREFACE]

\* a mutant: the message list is built in place in the module-level list
build_messages_aliased(fewshot, q, context) ==
  LET msgs == <<[role |-> "system", content |-> SYSTEM_PROMPT]>> \o fewshot
                \o <<UserMessage(q, context)>>
  IN [msgs |-> msgs, FEWSHOT |-> msgs]

\* build_messages(query, context) when the module-level list FEWSHOT holds
\* fewshot: the list returned, and FEWSHOT afterwards.  [system, *FEWSHOT]
\* is a new list, so the append does not reach FEWSHOT.
build_messages(fewshot, q, context) ==
  LET msgs == <<[role |-> "system", content |-> SYSTEM_PROMPT]>> \o fewshot
  IN [msgs |-> Append(msgs, UserMessage(q, context)), FEWSHOT |-> fewshot]

(***************************************************************************)
(* build_messages under the unit harness: a sequence of calls in one       *)
(* process; ret collects each call's arguments and the list it returned.   *)
(***************************************************************************)
PromptQueries == RetrieveQueries \cup {<<"H","i","\n","\n","R","e","m","e","m","b","e","r",":">>}

PromptContexts ==
  {<<>>} \cup
  {format_context(<<[score |-> UNIT * UNIT, text |-> c.rec.abstract, meta |-> c.rec]>>)
     : c \in ChunkPool}

PromptInit ==
  /\ arg = <<>>
  /\ HarnessReady
  /\ NoServing

CallBuildMessages ==
  /\ upc = "ready"
  /\ Len(ret) < MaxCalls
  /\ \E q \in PromptQueries, c \in PromptContexts :
       LET built == build_messages(exemplars, q, c) IN
       /\ ret' = Append(ret, [query |-> q, context |-> c, msgs |-> built.msgs])
       /\ exemplars' = built.FEWSHOT
  /\ UNCHANGED <<arg, upc, ext, cfg, META, index, embedder, loads, session, job>>
  /\ UNCHANGED <<pc, query, flag, trace, hits, answered, llm, resp>>

SpecPrompt == PromptInit /\ [][CallBuildMessages]_vars

(***************************************************************************)
(* C11: every list build_messages returns is one system message, then the  *)
(* exemplars of prompts.FEWSHOT unchanged and in order, then one user      *)
(* message whose content contains the query; and over any sequence of      *)
(* calls the module-level exemplar list stays as prompts.py defines it.    *)
(***************************************************************************)
C11_PromptStructure ==
  /\ exemplars = FEWSHOT
  /\ \A i \in 1..Len(ret) :
       LET msgs == ret[i].msgs
           n == Len(FEWSHOT)
       IN /\ Len(msgs) = n + 2
          /\ msgs[1].role = "system"
          /\ msgs[1].content = SYSTEM_PROMPT
          /\ SubSeq(msgs, 2, n + 1) = FEWSHOT
          /\ \A k \in 2..(n + 1) : msgs[k].role # "system"
          /\ msgs[n + 2].role = "user"
          /\ In(ret[i].query, msgs[n + 2].content)
          /\ In(ret[i].context, msgs[n + 2].content)

\* two calls with different non-empty queries were made
C11_Witness ==
  /\ Len(ret) >= 2
  /\ ret[1].query # <<>>
  /\ ret[2].query # <<>>
  /\ ret[1].query # ret[2].query
  /\ ret[2].context # <<>>

(***************************************************************************)
(* call_llm (llm_server.py, and server.py with its Azure branch)           *)
(***************************************************************************)
NO_PROVIDER_MSG ==
  <<":warning: No LLM provider configured. Please set OPENAI_API_KEY or OLLAMA_MODEL in .env.">>

\* providers reached by an awaited httpx request
Remote == {"openai", "azure"}

\* a mutant: the presence of a variable is tested instead of its truth value
call_llm_provider_is_not_none(env) ==
  IF env.OPENAI_API_KEY # None THEN "openai"
  ELSE IF /\ env.app = "server"
          /\ env.AZURE_OPENAI_API_KEY # None
          /\ env.AZURE_OPENAI_ENDPOINT # None
          /\ env.AZURE_OPENAI_DEPLOYMENT # None THEN "azure"
  ELSE IF env.OLLAMA_MODEL # None THEN "ollama"
  ELSE "none"

\* a mutant: the local model is preferred to the remote providers
call_llm_provider_local_first(env) ==
  IF Truthy(env.OLLAMA_MODEL) THEN "ollama"
  ELSE IF Truthy(env.OPENAI_API_KEY) THEN "openai"
  ELSE IF /\ env.app = "server"
          /\ Truthy(env.AZURE_OPENAI_API_KEY)
          /\ Truthy(env.AZURE_OPENAI_ENDPOINT)
          /\ Truthy(env.AZURE_OPENAI_DEPLOYMENT) THEN "azure"
  ELSE "none"

\* the branch call_llm takes: the if statements in their order
call_llm_provider(env) ==
  IF Truthy(env.OPENAI_API_KEY) THEN "openai"
  ELSE IF /\ env.app = "server"
          /\ Truthy(env.AZURE_OPENAI_API_KEY)
          /\ Truthy(env.AZURE_OPENAI_ENDPOINT)
          /\ Truthy(env.AZURE_OPENAI_DEPLOYMENT) THEN "azure"
  ELSE IF Truthy(env.OLLAMA_MODEL) THEN "ollama"
  ELSE "none"

\* the texts a provider may complete with
Completions ==
  { <<" ", "Try a calm, consistent bedtime routine.", "\n", "**Sources**:", "\n">>,
    <<"I could not find this in the context.">> }

HttpResponse(status, content) == [kind |-> "response", status |-> status, content |-> content]

Failure(kind) == [kind |-> kind, status |-> 0, content |-> None]

\* how client.post may end: a response (content is None when the body has no
\* choices[0].message.content), or an httpx transport error
PostOutcomes ==
  {HttpResponse(200, Some(c)) : c \in Completions}
  \cup {HttpResponse(200, None)}
  \cup {HttpResponse(status, None) : status \in {302, 500}}
  \cup {Failure("ConnectError"), Failure("ReadTimeout")}

\* how ollama.chat may end
OllamaOutcomes ==
  {HttpResponse(200, Some(c)) : c \in Completions}
  \cup {Failure("ConnectionError"), Failure("ResponseError")}

Return(value) == [raised |-> FALSE, value |-> value, error |-> ""]

Raise(error) == [raised |-> TRUE, value |-> <<>>, error |-> error]

\* a mutant: an HTTP error status is answered with the no-provider warning
AfterPost_swallowed(o) ==
  IF o.kind # "response" THEN Raise(o.kind)
  ELSE IF o.status \notin 200..299 THEN Return(NO_PROVIDER_MSG)
  ELSE IF o.content = None THEN Raise("KeyError")
  ELSE Return(Strip(o.content[1]))

\* call_llm after the awaited post: raise_for_status, then the content, stripped
AfterPost(o) ==
  IF o.kind # "response" THEN Raise(o.kind)
  ELSE IF o.status \notin 200..299 THEN Raise("HTTPStatusError")
  ELSE IF o.content = None THEN Raise("KeyError")
  ELSE Return(Strip(o.content[1]))

\* call_llm after ollama.chat
AfterOllama(o) ==
  IF o.kind # "response" THEN Raise(o.kind) ELSE Return(Strip(o.content[1]))

(***************************************************************************)
(* call_llm under the unit harness: CallLLM runs it to its await or to its *)
(* end, PostCompletes resumes it when the awaited request ends.            *)
(***************************************************************************)
GatewayMessages ==
  {build_messages(FEWSHOT, q, <<>>).msgs : q \in RetrieveQueries}

GatewayInit ==
  /\ arg \in {[messages |-> m] : m \in GatewayMessages}
  /\ HarnessReady
  /\ cfg \in Environments({"llm_server", "server"}, {DEFAULT_TOP_K})
  /\ NotLoaded
  /\ exemplars = FEWSHOT
  /\ NoRequests
  /\ NoSession
  /\ NoJob

Returns(result) ==
  /\ upc' = IF result.raised THEN "raised" ELSE "returned"
  /\ ret' = IF result.raised THEN <<>> ELSE <<result.value>>

CallLLM ==
  /\ upc = "ready"
  /\ LET p == call_llm_provider(cfg) IN
     \/ /\ p \in Remote
        /\ ext' = Append(ext, [provider |-> p, messages |-> arg.messages])
        /\ upc' = "awaiting"
        /\ ret' = ret
     \/ /\ p = "ollama"
        /\ ext' = Append(ext, [provider |-> p, messages |-> arg.messages])
        /\ \E o \in OllamaOutcomes : Returns(AfterOllama(o))
     \/ /\ p = "none"
        /\ ext' = ext
        /\ Returns(Return(NO_PROVIDER_MSG))
  /\ UNCHANGED <<arg, serving>>

PostCompletes ==
  /\ upc = "awaiting"
  /\ \E o \in PostOutcomes : Returns(AfterPost(o))
  /\ UNCHANGED <<arg, ext, serving>>

SpecGateway == GatewayInit /\ [][CallLLM \/ PostCompletes]_vars

(***************************************************************************)
(* C5: the provider is selected by configuration precedence alone: only    *)
(* the first configured provider in the order OpenAI, Azure (server.py),   *)
(* Ollama is ever called, at most once, and when its call fails no other   *)
(* provider is tried.                                                      *)
(***************************************************************************)
Precedence(app) ==
  IF app = "server" THEN <<"openai", "azure", "ollama">> ELSE <<"openai", "ollama">>

Configured(env, p) ==
  CASE p = "openai" -> Truthy(env.OPENAI_API_KEY)
    [] p = "azure" -> /\ Truthy(env.AZURE_OPENAI_API_KEY)
                      /\ Truthy(env.AZURE_OPENAI_ENDPOINT)
                      /\ Truthy(env.AZURE_OPENAI_DEPLOYMENT)
    [] p = "ollama" -> Truthy(env.OLLAMA_MODEL)

FirstConfigured(env) ==
  LET order == Precedence(env.app)
      ok == {i \in 1..Len(order) : Configured(env, order[i])}
  IN IF ok = {} THEN "none" ELSE order[CHOOSE i \in ok : \A j \in ok : i <= j]

C5_StaticPrecedence ==
  /\ Len(ext) <= 1
  /\ \A i \in 1..Len(ext) : ext[i].provider = FirstConfigured(cfg)
  /\ upc # "ready" /\ FirstConfigured(cfg) # "none" => Len(ext) = 1

\* the selected provider's call failed while a lower-precedence one is configured
C5_Witness ==
  /\ upc = "raised"
  /\ Len(ext) = 1
  /\ ext[1].provider = "azure"
  /\ Configured(cfg, "ollama")

(***************************************************************************)
(* C6: with no provider configured call_llm returns the no-provider        *)
(* warning verbatim, without raising and without any provider call.        *)
(***************************************************************************)
C6_NoProviderWarning ==
  (upc # "ready" /\ FirstConfigured(cfg) = "none") =>
    /\ upc = "returned"
    /\ ret = <<NO_PROVIDER_MSG>>
    /\ ext = <<>>

\* the warning was returned although the Azure variables are set (llm_server.py
\* has no Azure branch) and OPENAI_API_KEY is set to the empty string
C6_Witness ==
  /\ upc = "returned"
  /\ ret = <<NO_PROVIDER_MSG>>
  /\ cfg.OPENAI_API_KEY = Some("")
  /\ Truthy(cfg.AZURE_OPENAI_API_KEY)

(***************************************************************************)
(* The chat endpoint (llm_server.py; server.py is the same handler without *)
(* the smalltalk step).  The handler is a coroutine whose only suspension  *)
(* point is the awaited post of call_llm: chat(r) runs it from the request *)
(* to that await or to its end, chat_resumed(r) from the end of the post   *)
(* to the handler's end.                                                   *)
(***************************************************************************)
\* dict.get(key): None when the key is missing
Lookup(dict, key) == IF key \in DOMAIN dict THEN Some(dict[key]) ELSE None

\* a mutant: a field the metadata lacks is rendered as the empty string
Citation_defaulted(h) ==
  [title |-> <<Get(h.meta, "title", "")>>,
   authors |-> <<Get(h.meta, "authors", "")>>,
   year |-> <<Get(h.meta, "year", "")>>,
   url |-> <<Get(h.meta, "url", "")>>,
   source_file |-> <<Get(h.meta, "source_file", "")>>,
   chunk_id |-> <<Get(h.meta, "chunk_id", 0)>>,
   score |-> Get(h, "score", 0)]

\* Citation(...) of one hit
Citation(h) ==
  [title |-> Lookup(h.meta, "title"),
   authors |-> Lookup(h.meta, "authors"),
   year |-> Lookup(h.meta, "year"),
   url |-> Lookup(h.meta, "url"),
   source_file |-> Lookup(h.meta, "source_file"),
   chunk_id |-> Lookup(h.meta, "chunk_id"),
   score |-> Get(h, "score", 0)]

\* a mutant: a response is built without the citations
ChatResponse_uncited(fl, answer, hs) ==
  [answer |-> IF fl.flagged THEN fl.message \o <<"\n\n">> \o answer ELSE answer,
   citations |-> <<>>]

\* the end of chat: the crisis preface, the citations, the response
ChatResponse(fl, answer, hs) ==
  [answer |-> IF fl.flagged THEN fl.message \o <<"\n\n">> \o answer ELSE answer,
   citations |-> [i \in 1..Len(hs) |-> Citation(hs[i])]]

\* the collaborators called up to the smalltalk step
SmalltalkTrace(app) ==
  IF app = "llm_server" THEN <<"check_red_flags", "handle_smalltalk">>
  ELSE <<"check_red_flags">>

\* the collaborators called from retrieve to build_messages
RetrievalTrace == <<"embed", "index.search", "format_context", "build_messages">>

Providers == {"openai", "azure", "ollama"}

ChatQueries ==
  { <<>>,
    <<"H","i",","," ","h","e"," ","h","a","d"," ","a"," ","s","e","i","z","u","r","e">>,
    <<"t","h","a","n","k","s"," ","s","o"," ","m","u","c","h">>,
    <<"H","e"," ","i","s"," ","N","O","T"," ","R","E","S","P","O","N","S","I","V","E">>,
    <<"M","y"," ","c","h","i","l","d"," ","w","o","n","'","t"," ","s","l","e","e","p",","," ","a","n","y"," ","t","i","p","s","?">> }

\* the environments the serving process is started in
Deployments ==
  LET env(app, k, openai, azure, ollama) ==
        [app |-> app, TOP_K |-> k, OPENAI_API_KEY |-> openai,
         AZURE_OPENAI_API_KEY |-> azure, AZURE_OPENAI_ENDPOINT |-> azure,
         AZURE_OPENAI_DEPLOYMENT |-> azure, OLLAMA_MODEL |-> ollama]
      key == Some("set")
  IN {env("llm_server", DEFAULT_TOP_K, None, key, None),
      env("llm_server", 1, key, None, key),
      env("llm_server", 2, Some(""), None, key),
      env("server", 2, None, key, key),
      env("server", 1, None, None, Some(""))}

\* the corpus the serving process loads
ServingCorpus ==
  <<CHOOSE c \in ChunkPool : c.rec.chunk_id = 1,
    CHOOSE c \in ChunkPool : "year" \in DOMAIN c.rec,
    CHOOSE c \in ChunkPool : c.rec.abstract = "">>

\* check_red_flags(req.query) and handle_smalltalk(req.query), tabulated
RedFlagsOf == [q \in ChatQueries |-> check_red_flags(Some(q))]

SmalltalkOf == [q \in ChatQueries |-> handle_smalltalk(q)]

Init ==
  /\ arg = <<>>
  /\ HarnessReady
  /\ cfg \in Deployments
  /\ IF cfg.app = "server"
     THEN /\ index = IndexOf(ServingCorpus)
          /\ META = MetaOf(ServingCorpus)
          /\ embedder = <<EMBEDDING_MODEL("server")>>
          /\ loads = [x \in Singletons |-> 1]
     ELSE NotLoaded
  /\ exemplars = FEWSHOT
  /\ NoRequests
  /\ NoSession
  /\ NoJob

harness == <<arg, upc, ret, ext>>

\* the messages chat hands to call_llm for request r
SentMessages(r) == build_messages(exemplars, query[r], format_context(hits[r])).msgs

\* the event loop runs one handler at a time, and a handler gives it up only
\* at an await: a handler inside the synchronous ollama.chat keeps it
LoopHeld == \E r \in Reqs : pc[r] = "blocked"

\* the provider's call has ended as o and call_llm with result c: the
\* exception leaves the handler, or the handler goes on to its response
Finish(r, o, c) ==
  /\ answered' = [answered EXCEPT ![r] = o]
  /\ IF c.raised
     THEN /\ pc' = [pc EXCEPT ![r] = "failed"]
          /\ UNCHANGED <<llm, resp>>
     ELSE /\ pc' = [pc EXCEPT ![r] = "done"]
          /\ llm' = [llm EXCEPT ![r] = <<c.value>>]
          /\ resp' = [resp EXCEPT ![r] = <<ChatResponse(flag'[r], c.value, hits'[r])>>]

\* hits = retrieve(req.query): embed uses the embedder once, the search the
\* index once, and the loop the metadata once per result slot
Retrieved(r, q) ==
  LET e == Singleton(cfg.app, embedder, <<EMBEDDING_MODEL(cfg.app)>>, 1)
      ix == Singleton(cfg.app, index, IndexOf(ServingCorpus), 1)
      m == Singleton(cfg.app, META, MetaOf(ServingCorpus), cfg.TOP_K)
  IN /\ embedder' = e.cache
     /\ index' = ix.cache
     /\ META' = m.cache
     /\ loads' = [embedder |-> loads.embedder + e.ran,
                  index |-> loads.index + ix.ran,
                  meta |-> loads.meta + m.ran]
     /\ \E run \in retrieve(ix.value, m.value, q, cfg.TOP_K) :
          hits' = [hits EXCEPT ![r] = run.out]

chat(r) ==
  /\ pc[r] = "idle"
  /\ ~LoopHeld
  /\ \E q \in ChatQueries :
       LET res == IF cfg.app = "llm_server" THEN SmalltalkOf[q] ELSE None IN
       /\ query' = [query EXCEPT ![r] = q]
       /\ flag' = [flag EXCEPT ![r] = RedFlagsOf[q]]
       /\ \/ /\ res # None
             /\ trace' = [trace EXCEPT ![r] = SmalltalkTrace(cfg.app)]
             /\ pc' = [pc EXCEPT ![r] = "done"]
             /\ resp' = [resp EXCEPT ![r] = <<res[1]>>]
             /\ UNCHANGED <<hits, answered, llm, embedder, index, META, loads, exemplars>>
          \/ /\ res = None
             /\ Retrieved(r, q)
             /\ exemplars' = build_messages(exemplars, q, format_context(hits'[r])).FEWSHOT
             /\ LET p == call_llm_provider(cfg)
                    called == SmalltalkTrace(cfg.app) \o RetrievalTrace
                IN \/ /\ p \in Remote
                      /\ trace' = [trace EXCEPT ![r] = Append(called, p)]
                      /\ pc' = [pc EXCEPT ![r] = "awaiting"]
                      /\ UNCHANGED <<answered, llm, resp>>
                   \/ /\ p = "ollama"
                      /\ trace' = [trace EXCEPT ![r] = Append(called, p)]
                      /\ pc' = [pc EXCEPT ![r] = "blocked"]
                      /\ UNCHANGED <<answered, llm, resp>>
                   \/ /\ p = "none"
                      /\ trace' = [trace EXCEPT ![r] = called]
                      /\ Finish(r, <<>>, Return(NO_PROVIDER_MSG))
  /\ UNCHANGED <<harness, cfg, session, job>>

\* the awaited post of request r has ended
chat_resumed(r) ==
  /\ pc[r] = "awaiting"
  /\ ~LoopHeld
  /\ UNCHANGED <<harness, cfg, embedder, index, META, loads, exemplars, session, job>>
  /\ UNCHANGED <<query, flag, trace, hits>>
  /\ \E o \in PostOutcomes : Finish(r, <<o>>, AfterPost(o))

\* ollama.chat of request r has returned or raised
ollama_returns(r) ==
  /\ pc[r] = "blocked"
  /\ UNCHANGED <<harness, cfg, embedder, index, META, loads, exemplars, session, job>>
  /\ UNCHANGED <<query, flag, trace, hits>>
  /\ \E o \in OllamaOutcomes : Finish(r, <<o>>, AfterOllama(o))

Next == \E r \in Reqs : chat(r) \/ chat_resumed(r) \/ ollama_returns(r)

Spec == Init /\ [][Next]_vars

(***************************************************************************)
(* C1: every response to a query that contains a crisis phrase has the     *)
(* crisis message prepended to its answer, also when the Smalltalk Matcher *)
(* answers the query.                                                      *)
(***************************************************************************)
CrisisQueries == {q \in ChatQueries : HasCrisisPhrase(q)}

C1_CrisisPrefaceAlways ==
  \A r \in Reqs :
    (pc[r] = "done" /\ query[r] \in CrisisQueries) =>
      StartsWith(resp[r][1].answer, CRISIS_MSG \o <<"\n\n">>)

(***************************************************************************)
(* C3: when the Smalltalk Matcher matches the query, chat returns at once  *)
(* with no citations, and the request never calls the embedder, the index  *)
(* search, the prompt builder or a provider; when it does not match, the   *)
(* request goes on to retrieval.                                           *)
(***************************************************************************)
MatchedQueries == {q \in ChatQueries : Matching(Strip(Lower(q))) # {}}

SmalltalkMatches(r) == cfg.app = "llm_server" /\ query[r] \in MatchedQueries

Called(r, fn) == \E i \in 1..Len(trace[r]) : trace[r][i] = fn

C3_SmalltalkShortCircuits ==
  \A r \in Reqs :
    pc[r] # "idle" =>
      IF SmalltalkMatches(r)
      THEN /\ pc[r] = "done"
           /\ resp[r][1].citations = <<>>
           /\ \A fn \in {"embed", "index.search", "format_context", "build_messages"}
                        \cup Providers : ~Called(r, fn)
           /\ hits[r] = <<>> /\ answered[r] = <<>> /\ llm[r] = <<>>
      ELSE Called(r, "embed") /\ Called(r, "index.search") /\ hits[r] # <<>>

\* a gratitude query was answered by the matcher while another request, not
\* matched, is waiting for its provider
C3_Witness ==
  \E r, other \in Reqs :
    /\ pc[r] = "done"
    /\ SmalltalkMatches(r)
    /\ resp[r][1].answer = GRATITUDE_ANSWER
    /\ pc[other] = "awaiting"
    /\ ~SmalltalkMatches(other)

(***************************************************************************)
(* C7: with no provider configured a request the matcher does not answer   *)
(* still completes, its answer is the warning, and its citations are those *)
(* of its retrieval hits, one per hit and in their order.                  *)
(***************************************************************************)
C7_CitationsWithoutProvider ==
  \A r \in Reqs :
    (pc[r] # "idle" /\ FirstConfigured(cfg) = "none" /\ ~SmalltalkMatches(r)) =>
      /\ pc[r] = "done"
      /\ Called(r, "index.search")
      /\ llm[r] = <<NO_PROVIDER_MSG>>
      /\ Len(resp[r][1].citations) = Len(hits[r])
      /\ Len(hits[r]) >= 1
      /\ \A i \in 1..Len(hits[r]) :
           /\ resp[r][1].citations[i].score = hits[r][i].score
           /\ resp[r][1].citations[i].title = <<hits[r][i].meta.title>>
           /\ resp[r][1].citations[i].chunk_id = <<hits[r][i].meta.chunk_id>>

\* the warning was returned with the citations of several hits
C7_Witness ==
  \E r \in Reqs :
    /\ pc[r] = "done"
    /\ FirstConfigured(cfg) = "none"
    /\ llm[r] = <<NO_PROVIDER_MSG>>
    /\ Len(resp[r][1].citations) >= 2
    /\ resp[r][1].citations[1].title # resp[r][1].citations[2].title

(***************************************************************************)
(* C8: when the request to a remote provider fails in transport or is      *)
(* answered with a status outside 2xx, chat fails: call_llm returns        *)
(* nothing, no response is built, and exactly one provider request was     *)
(* made for the chat request.                                              *)
(***************************************************************************)
RemoteFailure(o) == o.kind # "response" \/ o.status < 200 \/ o.status > 299

ProviderCalls(r) == {i \in 1..Len(trace[r]) : trace[r][i] \in Providers}

C8_RemoteFailurePropagates ==
  \A r \in Reqs :
    (Called(r, "openai") \/ Called(r, "azure")) =>
      /\ Cardinality(ProviderCalls(r)) = 1
      /\ (answered[r] # <<>> /\ RemoteFailure(answered[r][1])) =>
           pc[r] = "failed" /\ llm[r] = <<>> /\ resp[r] = <<>>

\* a remote provider answered 500 and the request failed
C8_Witness ==
  \E r \in Reqs :
    /\ Called(r, "azure")
    /\ answered[r] # <<>>
    /\ answered[r][1].status = 500
    /\ pc[r] = "failed"

(***************************************************************************)
(* C12: the response of a completed request the matcher did not answer has *)
(* one citation per retrieval hit, in hit order; citation i carries the    *)
(* metadata fields and the score of hit i, a field the metadata lacks      *)
(* (year, url) being None; no citation scores higher than the first.       *)
(***************************************************************************)
CitationFields == {"title", "authors", "year", "url", "source_file", "chunk_id"}

C12_CitationsFollowHits ==
  \A r \in Reqs :
    (pc[r] = "done" /\ ~SmalltalkMatches(r)) =>
      LET cs == resp[r][1].citations IN
      /\ Len(cs) = Len(hits[r])
      /\ \A i \in 1..Len(cs) :
           /\ cs[i].score = hits[r][i].score
           /\ cs[1].score >= cs[i].score
           /\ \A f \in CitationFields :
                cs[i][f] = IF f \in DOMAIN hits[r][i].meta THEN <<hits[r][i].meta[f]>> ELSE <<>>

\* a completed request whose first citation has a year and a url and whose
\* second, of a lower score, has neither
C12_Witness ==
  \E r \in Reqs :
    /\ pc[r] = "done"
    /\ llm[r] # <<>>
    /\ llm[r] # <<NO_PROVIDER_MSG>>
    /\ Len(resp[r][1].citations) >= 2
    /\ resp[r][1].citations[1].year = <<"2003">>
    /\ resp[r][1].citations[1].url # <<>>
    /\ resp[r][1].citations[2].year = <<>>
    /\ resp[r][1].citations[2].url = <<>>
    /\ resp[r][1].citations[1].score > resp[r][1].citations[2].score

(***************************************************************************)
(* C13: each of the embedder, the index and the metadata store is built at *)
(* most once in a process, whatever the number and interleaving of the     *)
(* requests; behind the getters of llm_server.py none is built before the  *)
(* first request that retrieves, and each is built by the time that        *)
(* request has retrieved.                                                  *)
(***************************************************************************)
HasRetrieved == \E r \in Reqs : Called(r, "embed")

C13_InitializedOnce ==
  /\ \A x \in Singletons : loads[x] <= 1
  /\ cfg.app = "llm_server" =>
       /\ \A x \in Singletons : loads[x] = IF HasRetrieved THEN 1 ELSE 0
       /\ (embedder # <<>>) = HasRetrieved
       /\ (index # <<>>) = HasRetrieved
       /\ (META # <<>>) = HasRetrieved

\* two requests of llm_server.py are in flight at once and both have retrieved
C13_Witness ==
  /\ cfg.app = "llm_server"
  /\ \E r, other \in Reqs :
       /\ r # other
       /\ pc[r] = "awaiting" /\ Called(r, "index.search")
       /\ pc[other] = "awaiting" /\ Called(other, "index.search")
  /\ \A x \in Singletons : loads[x] = 1

(***************************************************************************)
(* C14: while a request waits for the completion of its provider call,     *)
(* remote or local, every other request can go on: one that has not        *)
(* started can run its handler, and one whose awaited post has ended can   *)
(* run to its response.                                                    *)
(***************************************************************************)
Waiting(r) == pc[r] \in {"awaiting", "blocked"}

C14_GatewayNonBlocking ==
  \A r, other \in Reqs :
    (r # other /\ Waiting(r)) =>
      /\ pc[other] = "idle" => ENABLED chat(other)
      /\ pc[other] = "awaiting" => ENABLED chat_resumed(other)

(***************************************************************************)
(* The serving process with the progress the code guarantees: the awaited  *)
(* post is made with timeout=60, so it ends (with a response or an httpx   *)
(* error) and the event loop resumes its handler.  ollama.chat is called   *)
(* with no timeout, so nothing makes it end.                               *)
(***************************************************************************)
LiveSpec == Spec /\ \A r \in Reqs : WF_vars(chat_resumed(r))

(***************************************************************************)
(* C15: every provider call of the gateway ends: a request waiting for its *)
(* provider, remote or local, eventually completes or fails.               *)
(***************************************************************************)
C15_GatewayCallEnds ==
  \A r \in Reqs : Waiting(r) ~> (pc[r] \in {"done", "failed"})

(***************************************************************************)
(* ingest.py: the ingestion job.  A row is a row of a CSV under data/ with *)
(* its cells after str(): an empty cell is read as NaN and becomes "nan".  *)
(* The job's `index` is the variable index; the files it writes are        *)
(* collected in ret.                                                       *)
(***************************************************************************)
INGEST_MAX_LEN == 1200

INGEST_OVERLAP == 150

\* what the embedding model computes for a text before any normalization;
\* the repository does not decide it, so the job is run with several models
ModelOutput(model, text) ==
  IF model = "by length"
  THEN (IF text = <<>> THEN <<-10, 0>> ELSE IF Len(text) > 800 THEN <<3, 4>> ELSE <<8, 6>>)
  ELSE (IF Len(text) % 2 = 0 THEN <<6, 8>> ELSE <<4, 3>>)

Models == {"by length", "by parity"}

\* v scaled to length one (UNIT)
Normalized(v) ==
  LET n == CHOOSE k \in 1..(UNIT * UNIT * 4) : k * k = Dot(v, v)
  IN <<(v[1] * UNIT) \div n, (v[2] * UNIT) \div n>>

\* embedder.encode(texts, normalize_embeddings=...): one row per text, in order
encode(model, texts, normalize_embeddings) ==
  [i \in 1..Len(texts) |->
     IF normalize_embeddings THEN Normalized(ModelOutput(model, texts[i]))
     ELSE ModelOutput(model, texts[i])]

\* the body of the loop over the rows: the chunks of one row
RowChunks(row) ==
  LET rec == [title |-> clean_text(row.Title),
              authors |-> clean_text(row.Authors),
              abstract |-> clean_text(row.Abstract),
              source_file |-> row.file]
      base_text == Strip(rec.title \o <<"\n", "\n">> \o rec.abstract)
      chunks == chunk_text(base_text, INGEST_MAX_LEN, INGEST_OVERLAP)
  IN IF rec.abstract = <<>> /\ rec.title = <<>> THEN <<>>
     ELSE [i \in 1..Len(chunks) |->
             [text |-> chunks[i],
              meta |-> [title |-> rec.title, authors |-> rec.authors,
                        abstract |-> rec.abstract, source_file |-> rec.source_file,
                        chunk_id |-> i - 1]]]

RowPool == {
  [file |-> "sleep.csv", Title |-> <<"S","l","e","e","p"," "," ","d","i","s","o","r","d","e","r","s">>, Authors |-> <<"B","r","e","s","l","i","n"," ","e","t"," ","a","l",".">>, Abstract |-> <<"S","l","e","e","p"," ","p","r","o","b","l","e","m","s"," ","a","r","e"," ","c","o","m","m","o","n",".","\n","S","c","r","e","e","n","i","n","g"," ","i","s"," ","a","d","v","i","s","e","d","."," ">>],
  [file |-> "sleep.csv", Title |-> <<>>, Authors |-> <<>>, Abstract |-> <<" ", " ", "\n">>],
  [file |-> "feeding.csv", Title |-> <<"F","e","e","d","i","n","g"," ","p","r","o","b","l","e","m","s">>, Authors |-> <<"F","i","e","l","d"," ","e","t"," ","a","l",".">>,
   Abstract |-> Rep("a", 700) \o <<".", " ">> \o Rep("b", 700) \o <<".">>],
  [file |-> "feeding.csv", Title |-> <<"n","a","n">>, Authors |-> <<"n","a","n">>,
   Abstract |-> <<"n","a","n">>],
  [file |-> "feeding.csv", Title |-> <<" ","T","r","a","n","s","i","t","i","o","n"," ","s","u","p","p","o","r","t","s">>, Authors |-> <<"n","a","n">>, Abstract |-> <<>>],
  [file |-> "long.csv", Title |-> <<>>, Authors |-> <<"B","r","e","s","l","i","n"," ","e","t"," ","a","l",".">>,
   Abstract |-> Rep("c", 1300) \o <<"!", " ", " ">> \o Rep("d", 60) \o <<"?">>]
}

\* the chunks of every row of the pool, tabulated
ChunksOf == [row \in RowPool |-> RowChunks(row)]

\* the loop over the CSV files and their rows
ReadRows(rows) == Flatten([i \in 1..Len(rows) |-> ChunksOf[rows[i]]])

\* [c["text"] for c in all_chunks]
ChunkTexts(chunks) == [i \in 1..Len(chunks) |-> chunks[i].text]

\* a mutant: one metadata record is written per row, not per chunk
ChunkMetas_per_row(chunks) ==
  LET firsts == SelectSeq(chunks, LAMBDA c : c.meta.chunk_id = 0)
  IN [i \in 1..Len(firsts) |-> firsts[i].meta]

\* [c["meta"] for c in all_chunks]
ChunkMetas(chunks) == [i \in 1..Len(chunks) |-> chunks[i].meta]

IngestInit ==
  /\ arg \in {[rows |-> rs, model |-> m] : rs \in SeqsUpTo(RowPool, MaxRows), m \in Models}
  /\ HarnessReady
  /\ NoServing

\* lines 22-49: every CSV is read and chunked
ReadCSVs ==
  /\ upc = "ready"
  /\ upc' = "read"
  /\ all_chunks' = ReadRows(arg.rows)
  /\ UNCHANGED <<arg, ret, ext, embs, cfg, META, index, embedder, loads, exemplars, session>>
  /\ UNCHANGED <<pc, query, flag, trace, hits, answered, llm, resp>>

\* lines 54-62: the texts are embedded and added to a new index; without a
\* chunk embs has no second dimension and embs.shape[1] raises
EmbedChunks ==
  /\ upc = "read"
  /\ IF all_chunks = <<>>
     THEN /\ upc' = "raised"
          /\ UNCHANGED <<embs, index>>
     ELSE /\ upc' = "indexed"
          /\ embs' = encode(arg.model, ChunkTexts(all_chunks), TRUE)
          /\ index' = embs'
  /\ UNCHANGED <<arg, ret, ext, all_chunks, cfg, META, embedder, loads, exemplars, session>>
  /\ UNCHANGED <<pc, query, flag, trace, hits, answered, llm, resp>>

\* line 65: faiss.write_index
WriteIndex ==
  /\ upc = "indexed"
  /\ upc' = "index written"
  /\ ret' = Append(ret, [file |-> "index.faiss", content |-> index])
  /\ UNCHANGED <<arg, ext, job, cfg, META, index, embedder, loads, exemplars, session>>
  /\ UNCHANGED <<pc, query, flag, trace, hits, answered, llm, resp>>

\* lines 67-68: json.dump of the metadata
WriteMeta ==
  /\ upc = "index written"
  /\ upc' = "returned"
  /\ ret' = Append(ret, [file |-> "meta.json", content |-> ChunkMetas(all_chunks)])
  /\ UNCHANGED <<arg, ext, job, cfg, META, index, embedder, loads, exemplars, session>>
  /\ UNCHANGED <<pc, query, flag, trace, hits, answered, llm, resp>>

SpecIngest == IngestInit /\ [][ReadCSVs \/ EmbedChunks \/ WriteIndex \/ WriteMeta]_vars

(***************************************************************************)
(* C16: when the ingestion job has finished, the metadata it wrote has one *)
(* record per vector of the index it wrote, and record i is the record of  *)
(* the chunk whose text was embedded into vector i; the chunks are those   *)
(* of the rows that have a title or an abstract, in row order.             *)
(***************************************************************************)
Stored(file) == ret[CHOOSE i \in 1..Len(ret) : ret[i].file = file].content

Kept(row) == clean_text(row.Title) # <<>> \/ clean_text(row.Abstract) # <<>>

RECURSIVE CountChunks(_)
CountChunks(rows) ==
  IF rows = <<>> THEN 0
  ELSE (IF Kept(Head(rows))
        THEN Len(chunk_text(Strip(clean_text(Head(rows).Title) \o <<"\n", "\n">>
                                  \o clean_text(Head(rows).Abstract)),
                            INGEST_MAX_LEN, INGEST_OVERLAP))
        ELSE 0) + CountChunks(Tail(rows))

C16_IndexMetaLockstep ==
  upc = "returned" =>
    LET vectors == Stored("index.faiss")
        metadata == Stored("meta.json")
    IN /\ Len(metadata) = Len(vectors)
       /\ Len(vectors) = CountChunks(arg.rows)
       /\ \A i \in 1..Len(vectors) :
            /\ metadata[i] = all_chunks[i].meta
            /\ vectors[i] = Normalized(ModelOutput(arg.model, all_chunks[i].text))
            /\ \E k \in 1..Len(arg.rows) :
                 /\ metadata[i].source_file = arg.rows[k].file
                 /\ metadata[i].title = clean_text(arg.rows[k].Title)

\* the job has finished on a corpus with a skipped row and a row of several
\* chunks, whose vectors differ
C16_Witness ==
  /\ upc = "returned"
  /\ \E k \in 1..Len(arg.rows) : ~Kept(arg.rows[k])
  /\ \E i \in 1..Len(Stored("meta.json")) :
       /\ Stored("meta.json")[i].chunk_id = 1
       /\ Stored("index.faiss")[i] # Stored("index.faiss")[i - 1]

(***************************************************************************)
(* C17: every vector the embedder produces has length one: the vectors of  *)
(* the index, embedded at ingestion, and the query vector retrieve gets    *)
(* from embed, so that the scores of the search are cosine similarities.   *)
(***************************************************************************)
IsUnit(v) == Dot(v, v) = UNIT * UNIT

C17_UnitVectors ==
  /\ \A i \in 1..Len(index) : IsUnit(index[i])
  /\ \A i \in 1..Len(embs) : IsUnit(embs[i])
  /\ ret # <<>> =>
       /\ IsUnit(ret[1].q_emb)
       /\ \A i \in 1..Len(ret[1].I) :
            ret[1].I[i] # NO_ID => ret[1].D[i] <= UNIT * UNIT

(***************************************************************************)
(* C18: a request with the empty query is not flagged by the Safety        *)
(* Filter, is not answered by the Smalltalk Matcher, does not fail unless  *)
(* its provider call does, and the prompt built for it has an empty        *)
(* context.                                                                *)
(***************************************************************************)
EmptyQuery(r) == pc[r] # "idle" /\ query[r] = <<>>

PromptContext(r) == format_context(hits[r])

C18_EmptyQueryHandled ==
  \A r \in Reqs :
    EmptyQuery(r) =>
      /\ ~flag[r].flagged
      /\ flag[r].message = <<>>
      /\ resp[r] # <<>> => resp[r][1].answer = llm[r][1]
      /\ pc[r] = "failed" => answered[r] # <<>>
      /\ PromptContext(r) = <<>>

(***************************************************************************)
(* C19: once loaded, the embedder, the index and the metadata store are    *)
(* never changed by a chat request: no step of any request, in any         *)
(* interleaving, alters one of them, and what is loaded is what the        *)
(* ingestion job persisted.                                                *)
(***************************************************************************)
AsPersisted ==
  /\ META # <<>> => META = MetaOf(ServingCorpus)
  /\ index # <<>> => index = IndexOf(ServingCorpus)
  /\ embedder # <<>> => embedder = <<EMBEDDING_MODEL(cfg.app)>>

C19_SingletonsReadOnly ==
  /\ []AsPersisted
  /\ [][/\ META # <<>> => META' = META
        /\ index # <<>> => index' = index
        /\ embedder # <<>> => embedder' = embedder]_vars

\* after loading, one request has failed at its provider and another has
\* completed with citations
C19_Witness ==
  /\ META = MetaOf(ServingCorpus)
  /\ index = IndexOf(ServingCorpus)
  /\ \E r, other \in Reqs :
       /\ pc[r] = "failed"
       /\ pc[other] = "done"
       /\ Called(other, "index.search")
       /\ resp[other][1].citations # <<>>

(***************************************************************************)
(* pages/index.py: ChatState, the state of one UI session.  The handlers   *)
(* are plain @rx.event handlers, not background tasks: the framework runs  *)
(* the handlers of one session one at a time, each to its end, so no other *)
(* handler of the session runs while send_message is at its yield or waits *)
(* for the backend.                                                        *)
(***************************************************************************)
PLACEHOLDER == <<"BULLET", " ", "BULLET", " ", "BULLET">>

Message(role, content) == [role |-> role, content |-> content]

\* what the user may have typed into the input box
TypedInputs ==
  { <<>>,
    <<" ">>,
    <<"H","i">>,
    <<" ","h","e","l","p"," ","\n">> }

\* how the post to the backend may end: a ChatResponse, a JSON object
\* without an answer, an error status, or an httpx error (timeout=30)
UiOutcomes ==
  {HttpResponse(200, Some(c)) : c \in Completions}
  \cup {HttpResponse(200, None), HttpResponse(500, None)}
  \cup {Failure("ConnectError"), Failure("ReadTimeout")}

\* a mutant: the input is not trimmed before it is tested
send_message_returns_unstripped(input, is_loading) == input = <<>> \/ is_loading

\* the guard of send_message: if not self.user_input.strip() or self.loading
send_message_returns(input, is_loading) == Strip(input) = <<>> \/ is_loading

backend == <<cfg, META, index, embedder, loads, exemplars,
             pc, query, flag, trace, hits, answered, llm, resp>>

UiInit ==
  /\ arg = <<>>
  /\ HarnessReady
  /\ NoServing

\* on_change of the input box
set_user_input(value) ==
  /\ sending = <<>>
  /\ user_input' = value
  /\ event' = "set_user_input"
  /\ UNCHANGED <<messages, loading, sending, posts, harness, backend, job>>

new_chat ==
  /\ sending = <<>>
  /\ messages' = <<>>
  /\ user_input' = <<>>
  /\ loading' = FALSE
  /\ event' = "new_chat"
  /\ UNCHANGED <<sending, posts, harness, backend, job>>

\* send_message from its start to its return or to its yield
send_message ==
  /\ sending = <<>>
  /\ event' = "send_message"
  /\ IF send_message_returns(user_input, loading)
     THEN UNCHANGED <<messages, user_input, loading, sending, posts>>
     ELSE /\ Len(posts) < MaxSends
          /\ messages' = messages \o <<Message("user", user_input),
                                       Message("assistant", PLACEHOLDER)>>
          /\ sending' = <<[query |-> user_input, at |-> "yield"]>>
          /\ user_input' = <<>>
          /\ loading' = TRUE
          /\ posts' = posts
  /\ UNCHANGED <<harness, backend, job>>

\* send_message from its yield to the awaited post
send_message_posts ==
  /\ sending # <<>>
  /\ sending[1].at = "yield"
  /\ sending' = <<[sending[1] EXCEPT !.at = "post"]>>
  /\ posts' = Append(posts, "in flight")
  /\ event' = "send_message: post"
  /\ UNCHANGED <<messages, user_input, loading, harness, backend, job>>

\* send_message from the end of the post to its end
send_message_resumed ==
  /\ sending # <<>>
  /\ sending[1].at = "post"
  /\ \E o \in UiOutcomes :
       IF o.kind = "response" /\ o.status \in 200..299
       THEN /\ messages' = Append(SubSeq(messages, 1, Len(messages) - 1),
                                  Message("assistant",
                                          IF o.content = None THEN <<>> ELSE o.content[1]))
            /\ posts' = [posts EXCEPT ![Len(posts)] = "answered"]
       ELSE /\ messages' = Append(messages,
                                  Message("assistant",
                                          <<":warning: Error: ",
                                            IF o.kind = "response" THEN "HTTPStatusError"
                                            ELSE o.kind>>))
            /\ posts' = [posts EXCEPT ![Len(posts)] = "failed"]
  /\ loading' = FALSE
  /\ sending' = <<>>
  /\ event' = "send_message: end"
  /\ UNCHANGED <<user_input, harness, backend, job>>

UiNext ==
  \/ \E value \in TypedInputs : set_user_input(value)
  \/ new_chat
  \/ send_message
  \/ send_message_posts
  \/ send_message_resumed

SpecUI == UiInit /\ [][UiNext]_vars

(***************************************************************************)
(* C20: a send_message that starts with an input that is empty after       *)
(* trimming, or while loading is set, changes nothing and posts nothing;   *)
(* and at no time is more than one chat request of the session in flight.  *)
(***************************************************************************)
InFlight == Cardinality({i \in 1..Len(posts) : posts[i] = "in flight"})

C20_SendIsNoOp ==
  /\ [](InFlight <= 1)
  /\ [][(event' = "send_message" /\ (Strip(user_input) = <<>> \/ loading)) =>
          /\ messages' = messages
          /\ user_input' = user_input
          /\ loading' = loading
          /\ sending' = sending
          /\ posts' = posts]_vars

\* after an answered send, send_message was called on an input of blanks
\* only and returned without sending
C20_Witness ==
  /\ event = "send_message"
  /\ sending = <<>>
  /\ user_input = <<" ">>
  /\ Len(messages) = 2
  /\ posts = <<"answered">>

(***************************************************************************)
(* chunk_text under the unit harness: a text of sentence characters,       *)
(* terminators and spaces, with the max_len and overlap of the call.       *)
(***************************************************************************)
ChunkAlphabet == {"a", ".", " "}

ChunkInit ==
  /\ arg \in {[text |-> t, max_len |-> m, overlap |-> o] :
               t \in SeqsUpTo(ChunkAlphabet, MaxText),
               m \in 1..MaxChunkLen, o \in 0..MaxChunkLen}
  /\ HarnessReady
  /\ NoServing

CallChunkText ==
  /\ upc = "ready"
  /\ upc' = "returned"
  /\ ret' = <<chunk_text(arg.text, arg.max_len, arg.overlap)>>
  /\ UNCHANGED <<arg, ext, serving>>

SpecChunk == ChunkInit /\ [][CallChunkText]_vars

(***************************************************************************)
(* C21: every chunk chunk_text returns is at most max_len characters long, *)
(* whatever the text, max_len and overlap, also a chunk that starts with   *)
(* the overlap of the chunk before it and the chunk of a sentence longer   *)
(* than max_len.                                                           *)
(***************************************************************************)
C21_ChunksBounded ==
  ret # <<>> =>
    \A i \in 1..Len(ret[1]) : Len(ret[1][i]) <= arg.max_len

(***************************************************************************)
(* C22: when no send_message is under way, so after every send that was    *)
(* started has finished, with an answer or with an error, loading is false,*)
(* every user message of the conversation is followed by exactly one       *)
(* assistant message, and no assistant message is the placeholder.         *)
(***************************************************************************)
C22_SendFinishesClean ==
  sending = <<>> =>
    /\ ~loading
    /\ Len(messages) % 2 = 0
    /\ \A i \in 1..Len(messages) :
         /\ messages[i].role = (IF i % 2 = 1 THEN "user" ELSE "assistant")
         /\ messages[i] # Message("assistant", PLACEHOLDER)

====
